---- MODULE Spec2Model ----
(***************************************************************************)
(* A model of the lczero-live board front end: Board (board.ts) and        *)
(* BoardArea (board_area.ts).                                              *)
(*                                                                         *)
(* JavaScript values.  A string is a sequence of one-character strings     *)
(* ("e2" is <<"e","2">>), so that slice, split, charCodeAt and parseInt    *)
(* are computed and not assumed.  undefined / null is the value Undefined  *)
(* (a one-element tuple, which no string of characters can equal); a      *)
(* variable that holds an object or undefined holds Object(record).        *)
(* A thrown TypeError is the outcome "TypeError" of the call.              *)
(***************************************************************************)
EXTENDS Integers, Sequences, FiniteSets, TLC

VARIABLES
    board,            \* BoardArea.board (the main Board)
    pvBoard,          \* BoardArea.pvBoard (the preview Board)
    pvVisualization,  \* BoardArea.pvVisualization, or Undefined
    currentPosition,  \* BoardArea.currentPosition, or Undefined
    element,          \* children of the shared #board element: <<>> or <<svg>>
    call,             \* the last completed call and its arguments
    outcome           \* "ok" or "TypeError": how the last call ended

vars == <<board, pvBoard, pvVisualization, currentPosition, element, call, outcome>>

Undefined == <<"undefined">>
\* A reference to an object (a record), which is never Undefined
Object(record) == <<"object", record>>

\* if (value) on a string | null | undefined: the empty string is falsy too
Truthy(value) == value # Undefined /\ value # <<>>

-----------------------------------------------------------------------------
(* Bounds of the explored inputs.                                          *)

MaxOutlines == 2       \* outline entries held by a Board under SpecBoard
MaxBoardArrows == 2    \* arrows held by a Board under SpecBoard
MaxArrows == 3         \* length of a candidate-arrow list under SpecEval
MaxPly == 2            \* largest ply of a candidate arrow under SpecEval

-----------------------------------------------------------------------------
(* Program constants.                                                      *)

SQUARE_SIZE == 45
BEAM_SPREAD == 55
Border == 0

-----------------------------------------------------------------------------
(* Strings.                                                                *)

Files == <<"a", "b", "c", "d", "e", "f", "g", "h">>
Digits == <<"0", "1", "2", "3", "4", "5", "6", "7", "8", "9">>
Lower == <<"a", "b", "c", "d", "e", "f", "g", "h", "i", "j", "k", "l", "m",
           "n", "o", "p", "q", "r", "s", "t", "u", "v", "w", "x", "y", "z">>
Upper == <<"A", "B", "C", "D", "E", "F", "G", "H", "I", "J", "K", "L", "M",
           "N", "O", "P", "Q", "R", "S", "T", "U", "V", "W", "X", "Y", "Z">>

IndexOf(seq, c) == CHOOSE i \in 1..Len(seq) : seq[i] = c
IsIn(seq, c) == \E i \in 1..Len(seq) : seq[i] = c

\* s.slice(a, b) for 0 <= a <= b
Slice(s, a, b) == SubSeq(s, a + 1, IF b < Len(s) THEN b ELSE Len(s))

\* c.toUpperCase() for a one-character string
ToUpperCase(c) == IF IsIn(Lower, c) THEN Upper[IndexOf(Lower, c)] ELSE c

\* isNaN(parseInt(c)) for a one-character string
IsNaNParseInt(c) == ~IsIn(Digits, c)
\* parseInt(c) for a one-character string that is a digit
ParseInt(c) == IndexOf(Digits, c) - 1

\* c.charCodeAt(0) - 'a'.charCodeAt(0), for the letters and digits of a move
CharCodeMinusA(c) ==
    IF IsIn(Lower, c) THEN IndexOf(Lower, c) - 1
    ELSE IF IsIn(Upper, c) THEN (IndexOf(Upper, c) - 1) - 32
    ELSE (ParseInt(c) + 48) - 97

RECURSIVE SplitAcc(_, _, _, _, _)
SplitAcc(s, sep, i, cur, acc) ==
    IF i > Len(s) THEN Append(acc, cur)
    ELSE IF s[i] = sep THEN SplitAcc(s, sep, i + 1, <<>>, Append(acc, cur))
    ELSE SplitAcc(s, sep, i + 1, Append(cur, s[i]), acc)

\* s.split(sep) for a one-character separator
Split(s, sep) == SplitAcc(s, sep, 1, <<>>, <<>>)

\* array[i] of a JavaScript array (0-based): undefined beyond its end
At(array, i) == IF i >= 0 /\ i < Len(array) THEN array[i + 1] ELSE Undefined

-----------------------------------------------------------------------------
(* board.ts: squares and directions.                                       *)

fileRanktoSquare(rank, file) == <<Files[file + 1], Digits[rank + 2]>>

squareToFileRank(square) == <<CharCodeMinusA(square[1]), ParseInt(square[2]) - 1>>

\* Math.round(Math.atan2(dy, dx) * 180 / Math.PI) for -7 <= dy, dx <= 7,
\* row dy + 8, column dx + 8.
Atan2Deg ==
<<
    <<-135, -131, -126, -120, -113, -106,  -98,  -90,  -82,  -74,  -67,  -60,  -54,  -49,  -45>>,
    <<-139, -135, -130, -124, -117, -108,  -99,  -90,  -81,  -72,  -63,  -56,  -50,  -45,  -41>>,
    <<-144, -140, -135, -129, -121, -112, -101,  -90,  -79,  -68,  -59,  -51,  -45,  -40,  -36>>,
    <<-150, -146, -141, -135, -127, -117, -104,  -90,  -76,  -63,  -53,  -45,  -39,  -34,  -30>>,
    <<-157, -153, -149, -143, -135, -124, -108,  -90,  -72,  -56,  -45,  -37,  -31,  -27,  -23>>,
    <<-164, -162, -158, -153, -146, -135, -117,  -90,  -63,  -45,  -34,  -27,  -22,  -18,  -16>>,
    <<-172, -171, -169, -166, -162, -153, -135,  -90,  -45,  -27,  -18,  -14,  -11,   -9,   -8>>,
    << 180,  180,  180,  180,  180,  180,  180,    0,    0,    0,    0,    0,    0,    0,    0>>,
    << 172,  171,  169,  166,  162,  153,  135,   90,   45,   27,   18,   14,   11,    9,    8>>,
    << 164,  162,  158,  153,  146,  135,  117,   90,   63,   45,   34,   27,   22,   18,   16>>,
    << 157,  153,  149,  143,  135,  124,  108,   90,   72,   56,   45,   37,   31,   27,   23>>,
    << 150,  146,  141,  135,  127,  117,  104,   90,   76,   63,   53,   45,   39,   34,   30>>,
    << 144,  140,  135,  129,  121,  112,  101,   90,   79,   68,   59,   51,   45,   40,   36>>,
    << 139,  135,  130,  124,  117,  108,   99,   90,   81,   72,   63,   56,   50,   45,   41>>,
    << 135,  131,  126,  120,  113,  106,   98,   90,   82,   74,   67,   60,   54,   49,   45>>
>>

moveToDirectionDeg(move) ==
    LET fr1 == squareToFileRank(Slice(move, 0, 2))
        fr2 == squareToFileRank(Slice(move, 2, 4))
    IN  Atan2Deg[(fr2[2] - fr1[2]) + 8][(fr2[1] - fr1[1]) + 8]

-----------------------------------------------------------------------------
(* board.ts: class Board.  A Board is a record of its fields.              *)
(*   pieces            Set<PieceLocation> of fresh objects: a sequence in  *)
(*                     insertion order (forEach order), never deduplicated *)
(*   highlightedSquares Set<string>: a set of strings                      *)
(*   outlinedSquares   Set<Outline>: a sequence in insertion order of      *)
(*                     entries [key, square, className, inset]; key is the *)
(*                     identity Set.add compares (the object reference, or *)
(*                     the value of a primitive string)                    *)
(*   arrows            ArrowLocation[]: a sequence                         *)

clearHighlights(b) == [b EXCEPT !.highlightedSquares = {}]

\* clearArrows that keeps the arrows
clearArrowsKept(b) == b

clearArrows(b) == [b EXCEPT !.arrows = <<>>]

clearOutlines(b) == [b EXCEPT !.outlinedSquares = <<>>]

addHighlight(b, square) ==
    [b EXCEPT !.highlightedSquares = b.highlightedSquares \cup {square}]

\* Set.add: SameValueZero on the entry itself (reference or primitive value).
addOutline(b, outline) ==
    IF \E i \in 1..Len(b.outlinedSquares) : b.outlinedSquares[i].key = outline.key
    THEN b
    ELSE [b EXCEPT !.outlinedSquares = Append(b.outlinedSquares, outline)]

addArrow(b, arrow) == [b EXCEPT !.arrows = Append(b.arrows, arrow)]

\* An Outline object (reference ref) and a primitive string as Set entries.
OutlineObject(ref, square, className, inset) ==
    [key |-> <<"obj", ref>>, square |-> square, className |-> className,
     inset |-> inset]
StringAsOutline(s) ==
    [key |-> <<"str", s>>, square |-> Undefined, className |-> Undefined,
     inset |-> Undefined]

RECURSIVE RowPieces(_, _, _, _)
\* the for-of loop over one row of the placement: pieces added from char i on
RowPieces(row, rowIndex, i, file) ==
    IF i > Len(row) THEN <<>>
    ELSE IF IsNaNParseInt(row[i])
         THEN <<[pieceSymbol |-> row[i], rank |-> rowIndex, file |-> file]>>
              \o RowPieces(row, rowIndex, i + 1, file + 1)
         ELSE RowPieces(row, rowIndex, i + 1, file + ParseInt(row[i]))

RECURSIVE RowsPieces(_, _)
RowsPieces(rows, rowIndex) ==
    IF rowIndex >= Len(rows) THEN <<>>
    ELSE RowPieces(rows[rowIndex + 1], rowIndex, 1, 0)
         \o RowsPieces(rows, rowIndex + 1)

fromFen(b, fen) ==
    [b EXCEPT !.pieces = RowsPieces(Split(At(Split(fen, " "), 0), "/"), 0),
              !.highlightedSquares = {},
              !.arrows = <<>>,
              !.outlinedSquares = <<>>,
              !.whiteToMove = (At(Split(fen, " "), 1) = <<"w">>)]

-----------------------------------------------------------------------------
(* board.ts: Board.render.  The svg is a record [class, children]; each    *)
(* child is one primitive.  Pixel values that are not integers are kept    *)
(* exact: an outline's x is x + hWidth with hWidth = inset/2, an arrow's   *)
(* end point is cell + SQUARE_SIZE/2 + lateral displacement.               *)

\* renderBoard: the rect of the square (rank, file)
SquareRect(b, rank, file) ==
    [kind |-> "square",
     x |-> (IF b.flipped THEN 7 - file ELSE file) * SQUARE_SIZE + Border,
     y |-> (IF b.flipped THEN rank ELSE 7 - rank) * SQUARE_SIZE + Border,
     light |-> ((rank + file) % 2 = 1),
     lastmove |-> (fileRanktoSquare(rank, file) \in b.highlightedSquares)]

renderBoard(b) ==
    [i \in 1..64 |-> SquareRect(b, (i - 1) \div 8, (i - 1) % 8)]

\* renderOutlines throws when outline.square is undefined
OutlineThrows(outline) == outline.square = Undefined

OutlineRect(b, outline) ==
    LET fr == squareToFileRank(outline.square)
    IN  [kind |-> "outline",
         x |-> (IF b.flipped THEN 7 - fr[1] ELSE fr[1]) * SQUARE_SIZE + Border,
         y |-> (IF b.flipped THEN fr[2] ELSE 7 - fr[2]) * SQUARE_SIZE + Border,
         hWidth |-> <<outline.inset, 2>>,
         class |-> outline.className]

renderOutlines(b) ==
    [i \in 1..Len(b.outlinedSquares) |-> OutlineRect(b, b.outlinedSquares[i])]

isWhitePiece(piece) == piece.pieceSymbol = ToUpperCase(piece.pieceSymbol)

\* renderPieces with the vertical transform of the squares applied to the row
PieceUseSquareTransform(b, piece) ==
    [kind |-> "piece",
     x |-> (IF b.flipped THEN 7 - piece.file ELSE piece.file) * SQUARE_SIZE + Border,
     y |-> (IF b.flipped THEN piece.rank ELSE 7 - piece.rank) * SQUARE_SIZE + Border,
     href |-> piece.pieceSymbol,
     sideToMove |-> (b.whiteToMove = isWhitePiece(piece))]

PieceUse(b, piece) ==
    [kind |-> "piece",
     x |-> (IF b.flipped THEN 7 - piece.file ELSE piece.file) * SQUARE_SIZE + Border,
     y |-> (IF b.flipped THEN 7 - piece.rank ELSE piece.rank) * SQUARE_SIZE + Border,
     href |-> piece.pieceSymbol,
     sideToMove |-> (b.whiteToMove = isWhitePiece(piece))]

RECURSIVE PiecesFrom(_, _, _)
PiecesFrom(b, whiteToShow, i) ==
    IF i > Len(b.pieces) THEN <<>>
    ELSE (IF isWhitePiece(b.pieces[i]) # whiteToShow THEN <<>>
          ELSE <<PieceUse(b, b.pieces[i])>>)
         \o PiecesFrom(b, whiteToShow, i + 1)

renderPieces(b, sideToMove) == PiecesFrom(b, b.whiteToMove = sideToMove, 1)

\* renderArrows throws when arrow.move is undefined (arrow.move.slice)
ArrowThrows(arrow) == arrow.move = Undefined

\* ((offset + 1) / (totalOffsets + 1) - 0.5) * BEAM_SPREAD as a fraction
\* <<numerator, denominator>>
LateralOffset(arrow) ==
    <<(2 * (arrow.offset + 1) - (arrow.totalOffsets + 1)) * BEAM_SPREAD,
      2 * (arrow.totalOffsets + 1)>>

\* An end point coordinate cell + d + SQUARE_SIZE/2 + border, where d is
\* sin or cos of offsetDirection times the lateral offset.
ArrowCoord(cell, trig, arrow) ==
    [cell |-> cell * SQUARE_SIZE + Border,
     half |-> <<SQUARE_SIZE, 2>>,
     d |-> <<trig, arrow.offsetDirection, LateralOffset(arrow)>>]

ArrowShape(b, arrow) ==
    LET fr1 == squareToFileRank(Slice(arrow.move, 0, 2))
        fr2 == squareToFileRank(Slice(arrow.move, 2, 4))
    IN  [kind |-> "arrow",
         x1 |-> ArrowCoord(IF b.flipped THEN 7 - fr1[1] ELSE fr1[1], "sin", arrow),
         y1 |-> ArrowCoord(IF b.flipped THEN fr1[2] ELSE 7 - fr1[2], "cos", arrow),
         x2 |-> ArrowCoord(IF b.flipped THEN 7 - fr2[1] ELSE fr2[1], "sin", arrow),
         y2 |-> ArrowCoord(IF b.flipped THEN fr2[2] ELSE 7 - fr2[2], "cos", arrow),
         classes |-> arrow.classes,
         width |-> arrow.width,
         angle |-> arrow.angle,
         headLength |-> arrow.headLength,
         headWidth |-> arrow.headWidth,
         dashLength |-> arrow.dashLength,
         dashSpace |-> arrow.dashSpace,
         after |-> arrow.renderAfterPieces]

RECURSIVE ArrowsFrom(_, _, _)
ArrowsFrom(b, renderAfterPieces, i) ==
    IF i > Len(b.arrows) THEN <<>>
    ELSE (IF b.arrows[i].renderAfterPieces # renderAfterPieces THEN <<>>
          ELSE <<ArrowShape(b, b.arrows[i])>>)
         \o ArrowsFrom(b, renderAfterPieces, i + 1)

renderArrows(b, renderAfterPieces) == ArrowsFrom(b, renderAfterPieces, 1)

RenderThrows(b) ==
    \/ \E i \in 1..Len(b.outlinedSquares) : OutlineThrows(b.outlinedSquares[i])
    \/ \E i \in 1..Len(b.arrows) : ArrowThrows(b.arrows[i])

\* render() with the side to move drawn before the best-move arrows
SvgChildrenPiecesFirst(b) ==
    renderBoard(b) \o renderOutlines(b) \o renderPieces(b, FALSE)
    \o renderPieces(b, TRUE) \o renderArrows(b, FALSE) \o renderArrows(b, TRUE)

\* The children appended to the svg, in the order render() appends them.
SvgChildren(b) ==
    renderBoard(b) \o renderOutlines(b) \o renderPieces(b, FALSE)
    \o renderArrows(b, FALSE) \o renderPieces(b, TRUE) \o renderArrows(b, TRUE)

\* render(): element.innerHTML = '' comes first and appendChild(svg) last, so
\* a throw in between leaves the element empty.
render(b) ==
    IF RenderThrows(b)
    THEN [outcome |-> "TypeError", element |-> <<>>]
    ELSE [outcome |-> "ok",
          element |-> <<[class |-> b.boardClass, children |-> SvgChildren(b)]>>]

StartFen ==
    <<"r","n","b","q","k","b","n","r","/","p","p","p","p","p","p","p","p","/",
      "8","/","8","/","8","/","8","/","P","P","P","P","P","P","P","P","/",
      "R","N","B","Q","K","B","N","R"," ","w">>

\* new Board(element): the field initialisers, then fromFen(start position)
NewBoard(boardClass) ==
    fromFen([boardClass |-> boardClass, pieces |-> <<>>,
             highlightedSquares |-> {}, outlinedSquares |-> <<>>,
             flipped |-> FALSE, arrows |-> <<>>, whiteToMove |-> TRUE],
            StartFen)

-----------------------------------------------------------------------------
(* board_area.ts: numbers that are not integers.  A node ratio a / b is    *)
(* <<"NaN">> (0/0), <<"Infinity">> (a/0, a > 0) or <<"ratio", a, b>>.       *)
(* A width is [w, mul, add]: Math.pow(w, 1/1.7) * 15 * mul + add, with mul *)
(* a fraction; a plain number n is [w |-> <<"none">>, mul |-> <<0,1>>,      *)
(* add |-> n].  An angle is the text of its expression.                    *)

Divide(a, b) ==
    IF b = 0 THEN (IF a = 0 THEN <<"NaN">> ELSE <<"Infinity">>)
    ELSE <<"ratio", a, b>>

Number(n) == [w |-> <<"none">>, mul |-> <<0, 1>>, add |-> n]

\* Math.pow(ratio, 1 / 1.7) * 15, then * mulNum / mulDen + add
Scaled(ratio, mulNum, mulDen, add) ==
    [w |-> ratio, mul |-> <<mulNum, mulDen>>, add |-> add]

IsFiniteNumber(x) == x.w[1] \in {"none", "ratio"}
IsZeroRatio(r) == r[1] = "ratio" /\ r[2] = 0

-----------------------------------------------------------------------------
(* board_area.ts: class BoardArea.                                         *)

\* The move of an arrow: variation.pvUci.split(' ')[ply]
ArrowMove(update, arrow) ==
    At(Split(update.variations[arrow.variationIdx + 1].pvUci, " "), arrow.ply)

\* `${from}:${moveToDirectionDeg(move)}`
LaneKey(move) == <<Slice(move, 0, 2), ":", moveToDirectionDeg(move)>>

\* move.slice(0, 2) of an undefined move throws a TypeError
BuildThrows(update, arrowInfos) ==
    \E i \in 1..Len(arrowInfos) :
        /\ arrowInfos[i].ply < 2
        /\ ArrowMove(update, arrowInfos[i]) = Undefined

\* A Map or sparse array as a function on its keys (a key outside the
\* domain reads as undefined).
Put(m, k, v) == [x \in DOMAIN m \cup {k} |-> IF x = k THEN v ELSE m[x]]
EmptyMap == [x \in {} |-> Undefined]

RECURSIVE CountTotals(_, _, _, _)
\* first loop of buildArrowOffsets, from arrow i on
CountTotals(update, arrowInfos, i, dirToCount) ==
    IF i > Len(arrowInfos) THEN dirToCount
    ELSE IF arrowInfos[i].ply >= 2
         THEN CountTotals(update, arrowInfos, i + 1, dirToCount)
         ELSE LET key == LaneKey(ArrowMove(update, arrowInfos[i]))
                  old == IF key \in DOMAIN dirToCount THEN dirToCount[key]
                         ELSE [current |-> 0, total |-> 0]
              IN  CountTotals(update, arrowInfos, i + 1,
                              Put(dirToCount, key,
                                  [old EXCEPT !.total = old.total + 1]))

RECURSIVE AssignOffsetsShared(_, _, _, _, _, _)
\* the second loop without value.current++
AssignOffsetsShared(update, arrowInfos, i, dirToCount, us, them) ==
    IF i > Len(arrowInfos) THEN <<us, them>>
    ELSE IF arrowInfos[i].ply >= 2
         THEN AssignOffsetsShared(update, arrowInfos, i + 1, dirToCount, us, them)
         ELSE LET key == LaneKey(ArrowMove(update, arrowInfos[i]))
                  value == dirToCount[key]
                  varIdx == arrowInfos[i].variationIdx
              IN  AssignOffsetsShared(update, arrowInfos, i + 1, dirToCount,
                      IF arrowInfos[i].ply = 0 THEN Put(us, varIdx, value) ELSE us,
                      IF arrowInfos[i].ply = 0 THEN them ELSE Put(them, varIdx, value))

RECURSIVE AssignOffsets(_, _, _, _, _, _)
\* second loop of buildArrowOffsets, from arrow i on
AssignOffsets(update, arrowInfos, i, dirToCount, us, them) ==
    IF i > Len(arrowInfos) THEN <<us, them>>
    ELSE IF arrowInfos[i].ply >= 2
         THEN AssignOffsets(update, arrowInfos, i + 1, dirToCount, us, them)
         ELSE LET key == LaneKey(ArrowMove(update, arrowInfos[i]))
                  value == dirToCount[key]
                  varIdx == arrowInfos[i].variationIdx
              IN  AssignOffsets(update, arrowInfos, i + 1,
                      Put(dirToCount, key,
                          [value EXCEPT !.current = value.current + 1]),
                      IF arrowInfos[i].ply = 0 THEN Put(us, varIdx, value) ELSE us,
                      IF arrowInfos[i].ply = 0 THEN them ELSE Put(them, varIdx, value))

\* [usVariations, themVariations], when buildArrowOffsets does not throw
buildArrowOffsets(update, arrowInfos) ==
    AssignOffsets(update, arrowInfos, 1,
                  CountTotals(update, arrowInfos, 1, EmptyMap),
                  EmptyMap, EmptyMap)

Min2(a) == IF a <= 2 THEN a ELSE 2

\* The ArrowLocation renderThinkingarrows builds for one candidate arrow.
ThinkingArrowCode(update, arrow, usVars, themVars) ==
    LET variation == update.variations[arrow.variationIdx + 1]
        ply == arrow.ply
        move == ArrowMove(update, arrow)
        ratio == Divide(variation.nodes, update.variations[1].nodes)
        classes == <<"arrow", "arrow-variation", arrow.variationIdx,
                     "arrow-ply", Min2(ply)>>
    IN  IF ply = 0 THEN
            [move |-> move, classes |-> classes,
             width |-> Scaled(ratio, 1, 1, 1), angle |-> "0",
             headLength |-> 20, headWidth |-> Scaled(ratio, 1, 1, 14),
             dashLength |-> 1000, dashSpace |-> 0,
             renderAfterPieces |-> FALSE,
             offset |-> usVars[arrow.variationIdx].current,
             totalOffsets |-> usVars[arrow.variationIdx].total,
             offsetDirection |-> moveToDirectionDeg(move)]
        ELSE IF ply = 1 THEN
            [move |-> move, classes |-> classes,
             width |-> Scaled(ratio, 10, 22, 1), angle |-> "Math.PI / 6",
             headLength |-> 10, headWidth |-> Scaled(ratio, 1, 2, 8),
             dashLength |-> 10, dashSpace |-> 10,
             renderAfterPieces |-> TRUE,
             offset |-> themVars[arrow.variationIdx].current,
             totalOffsets |-> themVars[arrow.variationIdx].total,
             offsetDirection |-> moveToDirectionDeg(move)]
        ELSE
            [move |-> move, classes |-> classes,
             width |-> Number(3), angle |-> "-Math.PI / 4",
             headLength |-> 5, headWidth |-> Number(10),
             dashLength |-> 3, dashSpace |-> 3,
             renderAfterPieces |-> TRUE,
             offset |-> usVars[arrow.variationIdx].current,
             totalOffsets |-> usVars[arrow.variationIdx].total,
             offsetDirection |->
                 moveToDirectionDeg(At(Split(variation.pvUci, " "), 0))]

\* renderThinkingarrows with every ply >= 2 arrow on offset 0 of 1
ThinkingArrowUnfanned(update, arrow, usVars, themVars) ==
    IF arrow.ply < 2 THEN ThinkingArrowCode(update, arrow, usVars, themVars)
    ELSE [ThinkingArrowCode(update, arrow, usVars, themVars)
             EXCEPT !.offset = 0, !.totalOffsets = 1]

ThinkingArrow(update, arrow, usVars, themVars) ==
    ThinkingArrowCode(update, arrow, usVars, themVars)

\* usVars[arrow.variationIdx].current of an undefined entry throws
ArrowStepThrows(arrow, usVars) ==
    arrow.ply >= 2 /\ arrow.variationIdx \notin DOMAIN usVars

RECURSIVE ThinkingLoop(_, _, _, _, _, _)
\* the loop of renderThinkingarrows from arrow i on: the board it leaves and
\* whether it threw
ThinkingLoop(b, update, arrows, i, usVars, themVars) ==
    IF i > Len(arrows) THEN [outcome |-> "ok", board |-> b]
    ELSE IF ArrowStepThrows(arrows[i], usVars)
         THEN [outcome |-> "TypeError", board |-> b]
         ELSE ThinkingLoop(addArrow(b, ThinkingArrow(update, arrows[i], usVars, themVars)),
                           update, arrows, i + 1, usVars, themVars)

\* renderThinkingarrows with arrows = selectArrowsToRender(update)
renderThinkingarrows(b, update, arrows) ==
    IF BuildThrows(update, arrows)
    THEN [outcome |-> "TypeError", board |-> b]
    ELSE LET offsets == buildArrowOffsets(update, arrows)
         IN  ThinkingLoop(b, update, arrows, 1, offsets[1], offsets[2])

renderMovePlayedOutline(b, move) ==
    addOutline(addOutline(clearOutlines(b), StringAsOutline(Slice(move, 0, 2))),
               StringAsOutline(Slice(move, 2, 4)))

\* renderCorrectBoard always drawing the main board
renderCorrectBoardMain(main, pv, vis) == render(main)

\* renderCorrectBoard given the two boards and pvVisualization
renderCorrectBoard(main, pv, vis) ==
    IF vis # Undefined THEN render(pv) ELSE render(main)

\* An arrow of setPvVisualization
PvArrow(move, ply, width, angle, headLength, headWidth, dashLength, dashSpace, after) ==
    [move |-> move, classes |-> <<"arrow", "arrow-variation-ply", ply>>,
     width |-> Number(width), angle |-> angle,
     headLength |-> headLength, headWidth |-> Number(headWidth),
     dashLength |-> dashLength, dashSpace |-> dashSpace,
     renderAfterPieces |-> after, offset |-> 0, totalOffsets |-> 1,
     offsetDirection |-> 0]

\* The pv board setPvVisualization builds
PvBoardFor(pv, lastMove, baseFen, moves) ==
    LET b0 == fromFen(pv, baseFen)
        b1 == IF Truthy(lastMove)
              THEN addHighlight(addHighlight(b0, Slice(lastMove, 0, 2)),
                                Slice(lastMove, 2, 4))
              ELSE b0
        b2 == IF Len(moves) > 0
              THEN addArrow(b1, PvArrow(moves[1], 0, 20, "0", 20, 44, 1000, 0, FALSE))
              ELSE b1
        b3 == IF Len(moves) > 1
              THEN addArrow(b2, PvArrow(moves[2], 1, 10, "Math.PI / 6", 10, 25, 10, 10, TRUE))
              ELSE b2
        b4 == IF Len(moves) > 2
              THEN addArrow(b3, PvArrow(moves[3], 2, 5, "-Math.PI / 4", 7, 15, 5, 5, TRUE))
              ELSE b3
    IN  IF Len(moves) > 3
        THEN addArrow(b4, PvArrow(moves[4], 3, 2, "Math.PI / 2", 5, 10, 2, 2, TRUE))
        ELSE b4

-----------------------------------------------------------------------------
(* Inputs.                                                                 *)

E2 == <<"e","2">>
E4 == <<"e","4">>
A8 == <<"a","8">>
E2E4 == <<"e","2","e","4">>
E7E5 == <<"e","7","e","5">>
G1F3 == <<"g","1","f","3">>
D2D4 == <<"d","2","d","4">>
H1A8 == <<"h","1","a","8">>

\* "4k3/8/8/8/8/8/4P3/4K3 b": well formed, black to move
FenBlack == <<"4","k","3","/","8","/","8","/","8","/","8","/","8","/","4","P","3","/","4","K","3"," ","b">>
\* "ppppppppp/8/8/8/8/8/8/8 w": the first row holds nine files
FenNine == <<"p","p","p","p","p","p","p","p","p","/","8","/","8","/","8","/","8","/","8","/","8","/","8"," ","w">>
\* "k7/K7 w": two rows
FenShort == <<"k","7","/","K","7"," ","w">>

\* A placement is well formed when it has 8 rows, each summing to 8 files.
RECURSIVE RowFiles(_, _)
RowFiles(row, i) ==
    IF i > Len(row) THEN 0
    ELSE (IF IsNaNParseInt(row[i]) THEN 1 ELSE ParseInt(row[i])) + RowFiles(row, i + 1)
WellFormed(fen) ==
    LET rows == Split(At(Split(fen, " "), 0), "/")
    IN  Len(rows) = 8 /\ \A i \in 1..8 : RowFiles(rows[i], 1) = 8

\* WsPositionData: the fields the board area reads
Positions ==
    {[fen |-> FenBlack, moveUci |-> E2E4], [fen |-> FenNine, moveUci |-> Undefined],
     [fen |-> FenBlack, moveUci |-> <<>>]}

\* nextMoveUci: absent, the empty string, a move
NextMoves == {Undefined, <<>>, E7E5}

\* WsEvaluationData: variations in rank order, each a pvUci and a node count
UpdateLanes ==
    [variations |-> <<[pvUci |-> <<"e","2","e","4"," ","e","7","e","5"," ","g","1","f","3">>, nodes |-> 4],
                      [pvUci |-> <<"e","2","e","4"," ","c","7","c","5">>, nodes |-> 2],
                      [pvUci |-> <<"e","2","e","3"," ","e","7","e","5"," ","d","2","d","4">>, nodes |-> 0]>>]
UpdateZeroBest ==
    [variations |-> <<[pvUci |-> <<"e","2","e","4"," ","e","7","e","5">>, nodes |-> 0],
                      [pvUci |-> <<"d","2","d","4">>, nodes |-> 3]>>]
Updates == {UpdateLanes, UpdateZeroBest}

\* ArrowInfo values for an update
ArrowInfos(update) ==
    {[variationIdx |-> v, ply |-> p] :
        v \in 0..(Len(update.variations) - 1), p \in 0..MaxPly}

SeqsUpTo(S, n) == UNION {[1..k -> S] : k \in 0..n}

\* selectArrowsToRender(update): some list of arrows of the update, of at
\* most n arrows
selectArrowsToRender(update, n) == SeqsUpTo(ArrowInfos(update), n)

ArrowInfo(v, p) == [variationIdx |-> v, ply |-> p]

\* The candidate lists tried under Spec, all for UpdateLanes: none; one lane
\* of two; a ply-2 arrow without its ply-0 arrow; a ply-2 arrow beyond the
\* two moves of variation 1.
AreaArrowLists ==
    {<<>>,
     <<ArrowInfo(0, 0), ArrowInfo(1, 0), ArrowInfo(0, 1)>>,
     <<ArrowInfo(0, 2)>>,
     <<ArrowInfo(1, 0), ArrowInfo(1, 2)>>}

\* The arguments of changePosition tried under Spec: every position with
\* either value of isChanged and with or without a next move, the empty
\* strings in calls with isChanged.
PositionCalls ==
    {c \in [position : Positions, isChanged : BOOLEAN, nextMoveUci : NextMoves] :
        /\ c.nextMoveUci = <<>> => (c.isChanged /\ c.position.moveUci # <<>>)
        /\ c.position.moveUci = <<>> => (c.isChanged /\ c.nextMoveUci = Undefined)}

\* The arguments of updateEvaluation tried under Spec, all for UpdateLanes:
\* every candidate list with or without a next move, the empty string with no
\* candidate
EvaluationCalls ==
    {c \in [arrows : AreaArrowLists, nextMoveUci : NextMoves] :
        c.nextMoveUci = <<>> => c.arrows = <<>>}

\* The arguments of setPvVisualization tried under Spec
PvArguments ==
    {[lastMove |-> Undefined, baseFen |-> FenBlack, moves |-> <<>>],
     [lastMove |-> <<>>, baseFen |-> FenBlack, moves |-> <<>>],
     [lastMove |-> E2E4, baseFen |-> FenShort, moves |-> <<E7E5, G1F3, D2D4, H1A8>>]}

-----------------------------------------------------------------------------
(* BoardArea: the constructor and the handlers.                            *)

Init ==
    /\ board = NewBoard("main-board")
    /\ pvBoard = NewBoard("pv-board")
    /\ pvVisualization = Undefined
    /\ currentPosition = Undefined
    /\ element = renderCorrectBoard(NewBoard("main-board"), NewBoard("pv-board"),
                                    Undefined).element
    /\ call = [op |-> "constructor"]
    /\ outcome = "ok"

\* setPvVisualization building the preview on the main board
SetPvVisualizationOnMain(lastMove, baseFen, moves) ==
    LET vis == Object([lastMove |-> lastMove, fen |-> baseFen, moves |-> moves])
        pv == PvBoardFor(board, lastMove, baseFen, moves)
        r == renderCorrectBoard(pv, pv, vis)
    IN  /\ pvVisualization' = vis
        /\ board' = pv
        /\ element' = r.element
        /\ outcome' = r.outcome
        /\ call' = [op |-> "setPvVisualization", lastMove |-> lastMove,
                    baseFen |-> baseFen, moves |-> moves]
        /\ UNCHANGED <<pvBoard, currentPosition>>

SetPvVisualization(lastMove, baseFen, moves) ==
    LET vis == Object([lastMove |-> lastMove, fen |-> baseFen, moves |-> moves])
        pv == PvBoardFor(pvBoard, lastMove, baseFen, moves)
        r == renderCorrectBoard(board, pv, vis)
    IN  /\ pvVisualization' = vis
        /\ pvBoard' = pv
        /\ element' = r.element
        /\ outcome' = r.outcome
        /\ call' = [op |-> "setPvVisualization", lastMove |-> lastMove,
                    baseFen |-> baseFen, moves |-> moves]
        /\ UNCHANGED <<board, currentPosition>>

ResetPvVisualization ==
    LET r == renderCorrectBoard(board, pvBoard, Undefined)
    IN  /\ pvVisualization' = Undefined
        /\ element' = r.element
        /\ outcome' = r.outcome
        /\ call' = [op |-> "resetPvVisualization"]
        /\ UNCHANGED <<board, pvBoard, currentPosition>>

\* The main board changePosition leaves when isChanged
ChangedBoard(b, position, nextMoveUci) ==
    LET b0 == fromFen(b, position.fen)
        b1 == IF Truthy(nextMoveUci) THEN renderMovePlayedOutline(b0, nextMoveUci)
              ELSE b0
        b2 == clearHighlights(b1)
    IN  IF Truthy(position.moveUci)
        THEN addHighlight(addHighlight(b2, Slice(position.moveUci, 0, 2)),
                          Slice(position.moveUci, 2, 4))
        ELSE b2

\* changePosition.  positionIsOngoing, lastUpdateTimestamp and the clock
\* texts updateClocks writes are outside the model.
ChangePosition(position, isChanged, nextMoveUci) ==
    LET b == ChangedBoard(board, position, nextMoveUci)
        r == renderCorrectBoard(b, pvBoard, pvVisualization)
    IN  /\ currentPosition' = position
        /\ board' = IF isChanged THEN b ELSE board
        /\ element' = IF isChanged THEN r.element ELSE element
        /\ outcome' = IF isChanged THEN r.outcome ELSE "ok"
        /\ call' = [op |-> "changePosition", position |-> position,
                    isChanged |-> isChanged, nextMoveUci |-> nextMoveUci]
        /\ UNCHANGED <<pvBoard, pvVisualization>>

\* The timer callback: updateClocks returns early without a position and
\* otherwise writes the clock texts only.
UpdateClocks ==
    /\ call' = [op |-> "updateClocks"]
    /\ outcome' = "ok"
    /\ UNCHANGED <<board, pvBoard, pvVisualization, currentPosition, element>>

\* updateEvaluation = updateBoardArrows(update, nextMoveUci), with arrows
\* the list selectArrowsToRender(update) returns
UpdateEvaluation(update, arrows, nextMoveUci) ==
    LET b0 == clearArrows(board)
        b1 == IF Truthy(nextMoveUci) THEN renderMovePlayedOutline(b0, nextMoveUci)
              ELSE b0
        t == renderThinkingarrows(b1, update, arrows)
        r == renderCorrectBoard(t.board, pvBoard, pvVisualization)
    IN  /\ board' = t.board
        /\ element' = IF t.outcome = "ok" THEN r.element ELSE element
        /\ outcome' = IF t.outcome = "ok" THEN r.outcome ELSE t.outcome
        /\ call' = [op |-> "updateEvaluation", update |-> update,
                    arrows |-> arrows, nextMoveUci |-> nextMoveUci]
        /\ UNCHANGED <<pvBoard, pvVisualization, currentPosition>>

Next ==
    \/ \E a \in PvArguments : SetPvVisualization(a.lastMove, a.baseFen, a.moves)
    \/ ResetPvVisualization
    \/ \E c \in PositionCalls : ChangePosition(c.position, c.isChanged, c.nextMoveUci)
    \/ \E c \in EvaluationCalls : UpdateEvaluation(UpdateLanes, c.arrows, c.nextMoveUci)
    \/ UpdateClocks

Spec == Init /\ [][Next]_vars

-----------------------------------------------------------------------------
(* SpecEval: one evaluation update on a freshly constructed BoardArea,     *)
(* over every candidate-arrow list of at most MaxArrows arrows.            *)

NextEval ==
    /\ call.op = "constructor"
    /\ \E update \in Updates, nextMoveUci \in NextMoves :
           \E arrows \in selectArrowsToRender(update, MaxArrows) :
               UpdateEvaluation(update, arrows, nextMoveUci)

SpecEval == Init /\ [][NextEval]_vars

-----------------------------------------------------------------------------
(* SpecBoard: one Board driven through its public methods, then rendered.  *)
(* The orientation flag has no setter in board.ts; SpecBoard starts the    *)
(* board in either orientation so that the transforms are exercised for    *)
(* both.  A run builds a board state with any sequence of the mutators and *)
(* then renders it once.                                                   *)

\* Outline objects a caller holds: reference 1 and reference 2 are two
\* objects with equal fields.
OutlineObjects ==
    <<OutlineObject(1, E2, "outline-a", 2),
      OutlineObject(2, E2, "outline-a", 2),
      OutlineObject(3, A8, "outline-b", 4)>>

BoardArrowChoices ==
    {PvArrow(E2E4, 0, 20, "0", 20, 44, 1000, 0, FALSE),
     [PvArrow(H1A8, 1, 10, "Math.PI / 6", 10, 25, 10, 10, TRUE)
         EXCEPT !.offset = 1, !.totalOffsets = 2, !.offsetDirection = 135]}

InitBoard ==
    /\ \E f \in BOOLEAN : board = [NewBoard("main-board") EXCEPT !.flipped = f]
    /\ pvBoard = NewBoard("pv-board")
    /\ pvVisualization = Undefined
    /\ currentPosition = Undefined
    /\ element = <<>>
    /\ call = [op |-> "new Board"]
    /\ outcome = "ok"

BoardCall(b, op, arg) ==
    /\ call.op # "render"
    /\ board' = b
    /\ call' = [op |-> op, arg |-> arg]
    /\ outcome' = "ok"
    /\ UNCHANGED <<pvBoard, pvVisualization, currentPosition, element>>

BoardAddHighlight(square) == BoardCall(addHighlight(board, square), "addHighlight", square)
BoardClearHighlights == BoardCall(clearHighlights(board), "clearHighlights", Undefined)
BoardAddOutline(outline) ==
    /\ Len(board.outlinedSquares) < MaxOutlines
    /\ BoardCall(addOutline(board, outline), "addOutline", outline)
BoardClearOutlines == BoardCall(clearOutlines(board), "clearOutlines", Undefined)
BoardAddArrow(arrow) ==
    /\ Len(board.arrows) < MaxBoardArrows
    /\ BoardCall(addArrow(board, arrow), "addArrow", arrow)
BoardClearArrows == BoardCall(clearArrows(board), "clearArrows", Undefined)
BoardFromFen(fen) == BoardCall(fromFen(board, fen), "fromFen", fen)

BoardRender ==
    /\ call.op # "render"
    /\ element' = render(board).element
    /\ outcome' = render(board).outcome
    /\ call' = [op |-> "render"]
    /\ UNCHANGED <<board, pvBoard, pvVisualization, currentPosition>>

NextBoard ==
    \/ \E square \in {E2, E4} : BoardAddHighlight(square)
    \/ BoardClearHighlights
    \/ \E i \in 1..Len(OutlineObjects) : BoardAddOutline(OutlineObjects[i])
    \/ BoardClearOutlines
    \/ \E arrow \in BoardArrowChoices : BoardAddArrow(arrow)
    \/ BoardClearArrows
    \/ \E fen \in {FenBlack, FenNine} : BoardFromFen(fen)
    \/ BoardRender

SpecBoard == InitBoard /\ [][NextBoard]_vars

-----------------------------------------------------------------------------
(* Properties.                                                             *)

\* An updateEvaluation call has completed (normally or by throwing); the
\* arrow board.arrows[k] was built from the candidate call.arrows[k].
EvalDone == call.op = "updateEvaluation"

UniquePairs(arrows) ==
    \A i, j \in 1..Len(arrows) : i # j => arrows[i] # arrows[j]

CandMove(i) == ArrowMove(call.update, call.arrows[i])

\* The ply-0 and ply-1 candidates in the lane (origin, rounded direction) of
\* candidate i
LaneMembers(i) ==
    {j \in 1..Len(call.arrows) :
        /\ call.arrows[j].ply < 2
        /\ Slice(CandMove(j), 0, 2) = Slice(CandMove(i), 0, 2)
        /\ moveToDirectionDeg(CandMove(j)) = moveToDirectionDeg(CandMove(i))}

LanePosition(i) == Cardinality({j \in LaneMembers(i) : j < i})

\* C1: when each (variation, ply) pair appears at most once in the candidate
\* list, every ply-0 or ply-1 arrow added to the board carries as offset the
\* number of earlier members of its lane in the list, and as totalOffsets the
\* number N of members of its lane (so a lane's members carry 0, 1, ..., N-1
\* in list order).
C1_LaneOffsets ==
    (EvalDone /\ UniquePairs(call.arrows)) =>
        \A k \in 1..Len(board.arrows) :
            call.arrows[k].ply < 2 =>
                /\ board.arrows[k].move = CandMove(k)
                /\ board.arrows[k].offset = LanePosition(k)
                /\ board.arrows[k].totalOffsets = Cardinality(LaneMembers(k))

\* Three arrows from e2 in one lane were added with offsets 0, 1, 2 of 3.
C1_Witness ==
    /\ EvalDone /\ UniquePairs(call.arrows)
    /\ outcome = "ok"
    /\ Len(board.arrows) = 3
    /\ \A k \in 1..3 :
        /\ call.arrows[k].ply = 0
        /\ Slice(board.arrows[k].move, 0, 2) = E2
        /\ board.arrows[k].offsetDirection = 90
        /\ board.arrows[k].offset = k - 1
        /\ board.arrows[k].totalOffsets = 3

\* C2 as stated: every arrow with ply >= 2 added to the board carries
\* offset 0 and totalOffsets 1 (here for the calls that complete normally on
\* a list without repeated pairs).
C2_PlyTwoUnfanned ==
    (EvalDone /\ UniquePairs(call.arrows) /\ outcome = "ok") =>
        \A k \in 1..Len(board.arrows) :
            call.arrows[k].ply >= 2 =>
                board.arrows[k].offset = 0 /\ board.arrows[k].totalOffsets = 1

PlyZeroOf(k) ==
    {j \in 1..Len(call.arrows) :
        /\ call.arrows[j].ply = 0
        /\ call.arrows[j].variationIdx = call.arrows[k].variationIdx}

Last(S) == CHOOSE j \in S : \A i \in S : i <= j

\* C2 amended: every arrow with ply >= 2 added to the board carries the
\* offset and totalOffsets allocated to the (last) ply-0 arrow of its
\* variation in the candidate list and the direction of the variation's
\* first move; when the list holds no ply-0 arrow of that variation the call
\* throws a TypeError and the arrow is not added.
C2_CarriesPlyZeroLane ==
    EvalDone =>
        \A k \in 1..Len(call.arrows) :
            call.arrows[k].ply >= 2 =>
                IF PlyZeroOf(k) = {}
                THEN Len(board.arrows) < k /\ outcome = "TypeError"
                ELSE k <= Len(board.arrows) =>
                        /\ board.arrows[k].offset = LanePosition(Last(PlyZeroOf(k)))
                        /\ board.arrows[k].totalOffsets =
                               Cardinality(LaneMembers(Last(PlyZeroOf(k))))
                        /\ board.arrows[k].offsetDirection =
                               moveToDirectionDeg(CandMove(Last(PlyZeroOf(k))))

\* A ply-2 arrow was added on offset 1 of 2, beside its variation's ply-0
\* arrow.
C2_Witness ==
    /\ EvalDone
    /\ \E k \in 1..Len(board.arrows) :
        /\ call.arrows[k].ply >= 2
        /\ board.arrows[k].move # Undefined
        /\ board.arrows[k].offset = 1
        /\ board.arrows[k].totalOffsets = 2

\* A render() call has completed normally on the board it was given.
Rendered == call.op = "render" /\ outcome = "ok"

Children == element[1].children

IsUpperCase(c) == c = ToUpperCase(c)

\* The phase of render() a primitive belongs to
Phase(c) ==
    CASE c.kind = "square" -> 1
      [] c.kind = "outline" -> 2
      [] c.kind = "piece" -> (IF IsUpperCase(c.href) = board.whiteToMove THEN 5 ELSE 3)
      [] c.kind = "arrow" -> (IF c.after THEN 6 ELSE 4)

CountPhase(n) == Cardinality({i \in 1..Len(Children) : Phase(Children[i]) = n})

PiecesOfSide(white) ==
    {i \in 1..Len(board.pieces) : IsUpperCase(board.pieces[i].pieceSymbol) = white}
ArrowsFlagged(after) ==
    {i \in 1..Len(board.arrows) : board.arrows[i].renderAfterPieces = after}

\* C3: render() emits the 64 squares, then the outlines, then exactly the
\* pieces of the side not to move, then exactly the arrows with
\* renderAfterPieces = false, then exactly the pieces of the side to move,
\* then exactly the arrows with renderAfterPieces = true, and no primitive of
\* a later phase precedes one of an earlier phase.
C3_RenderOrder ==
    Rendered =>
        /\ \A i \in 1..(Len(Children) - 1) : Phase(Children[i]) <= Phase(Children[i + 1])
        /\ CountPhase(1) = 64
        /\ CountPhase(2) = Len(board.outlinedSquares)
        /\ CountPhase(3) = Cardinality(PiecesOfSide(~board.whiteToMove))
        /\ CountPhase(4) = Cardinality(ArrowsFlagged(FALSE))
        /\ CountPhase(5) = Cardinality(PiecesOfSide(board.whiteToMove))
        /\ CountPhase(6) = Cardinality(ArrowsFlagged(TRUE))

\* A drawing with black to move that holds primitives of all six phases.
C3_Witness ==
    /\ Rendered
    /\ ~board.whiteToMove
    /\ \A n \in 1..6 : CountPhase(n) > 0

NotToMove(piece) == IsUpperCase(piece.pieceSymbol) # board.whiteToMove
ToMove(piece) == IsUpperCase(piece.pieceSymbol) = board.whiteToMove
BeforePieces(arrow) == ~arrow.renderAfterPieces
AfterPieces(arrow) == arrow.renderAfterPieces
IsPieceChild(c) == c.kind = "piece"
IsArrowChild(c) == c.kind = "arrow"

\* The rect drawn for the square (rank, file): renderBoard draws rank by rank
SquareChild(rank, file) == Children[rank * 8 + file + 1]

OnCell(x, y, rank, file) ==
    x = SquareChild(rank, file).x /\ y = SquareChild(rank, file).y

Undisplaced(arrow) == 2 * (arrow.offset + 1) = arrow.totalOffsets + 1

\* An arrow end point on the cell of (rank, file): the cell's corner plus
\* half a square, plus the lateral displacement (zero when un-displaced)
EndOnCell(x, y, rank, file, arrow) ==
    /\ OnCell(x.cell, y.cell, rank, file)
    /\ x.half = <<SQUARE_SIZE, 2>> /\ y.half = <<SQUARE_SIZE, 2>>
    /\ Undisplaced(arrow) => x.d[3][1] = 0 /\ y.d[3][1] = 0

\* C8: in either orientation, an outline on square s, the piece parsed from
\* placement row i and file f (square of file f and rank index 7 - i) and an
\* arrow end point on s are drawn on the cell of the rect drawn for s.
C8_SameCell ==
    Rendered =>
        LET pieceKids == SelectSeq(Children, IsPieceChild)
            pieces == SelectSeq(board.pieces, NotToMove) \o SelectSeq(board.pieces, ToMove)
            arrowKids == SelectSeq(Children, IsArrowChild)
            arrows == SelectSeq(board.arrows, BeforePieces)
                      \o SelectSeq(board.arrows, AfterPieces)
        IN  /\ \A i \in 1..Len(board.outlinedSquares) :
                LET fr == squareToFileRank(board.outlinedSquares[i].square)
                IN  OnCell(Children[64 + i].x, Children[64 + i].y, fr[2], fr[1])
            /\ Len(pieceKids) = Len(pieces)
            /\ \A i \in 1..Len(pieces) :
                pieces[i].file <= 7 =>
                    /\ pieceKids[i].href = pieces[i].pieceSymbol
                    /\ OnCell(pieceKids[i].x, pieceKids[i].y,
                              7 - pieces[i].rank, pieces[i].file)
            /\ Len(arrowKids) = Len(arrows)
            /\ \A i \in 1..Len(arrows) :
                LET fr1 == squareToFileRank(Slice(arrows[i].move, 0, 2))
                    fr2 == squareToFileRank(Slice(arrows[i].move, 2, 4))
                IN  /\ EndOnCell(arrowKids[i].x1, arrowKids[i].y1, fr1[2], fr1[1], arrows[i])
                    /\ EndOnCell(arrowKids[i].x2, arrowKids[i].y2, fr2[2], fr2[1], arrows[i])

\* A flipped board was drawn with an outline, pieces of both sides and an
\* un-displaced arrow.
C8_Witness ==
    /\ Rendered
    /\ board.flipped
    /\ board.outlinedSquares # <<>>
    /\ PiecesOfSide(TRUE) # {} /\ PiecesOfSide(FALSE) # {}
    /\ \E i \in 1..Len(board.arrows) : Undisplaced(board.arrows[i])

\* C9 as stated: the stored outlines hold no two entries with the same
\* square and the same style tag.
C9_NoDuplicateOutlines ==
    \A i, j \in 1..Len(board.outlinedSquares) :
        (/\ board.outlinedSquares[i].square = board.outlinedSquares[j].square
         /\ board.outlinedSquares[i].className = board.outlinedSquares[j].className)
        => i = j

Beyond(i) == CandMove(i) = Undefined

\* C6 as stated: an update whose candidate list holds an arrow with a ply at
\* or beyond the number of moves of its variation completes normally, having
\* added the other arrows and only those (here for calls without
\* nextMoveUci whose ply >= 2 arrows all have their ply-0 arrow in the list).
C6_SkipsArrowBeyond ==
    (/\ EvalDone
     /\ ~Truthy(call.nextMoveUci)
     /\ \A k \in 1..Len(call.arrows) : call.arrows[k].ply >= 2 => PlyZeroOf(k) # {}
     /\ \E i \in 1..Len(call.arrows) : Beyond(i))
    => /\ outcome = "ok"
       /\ Len(board.arrows) = Cardinality({i \in 1..Len(call.arrows) : ~Beyond(i)})
       /\ \A k \in 1..Len(board.arrows) : board.arrows[k].move # Undefined

\* C7 as stated: when the best variation has node count 0, the ratio used
\* for every arrow is 0 and no width is NaN or infinite.
C7_ZeroBestGuard ==
    (EvalDone /\ call.update.variations[1].nodes = 0) =>
        \A k \in 1..Len(board.arrows) :
            /\ IsFiniteNumber(board.arrows[k].width)
            /\ IsFiniteNumber(board.arrows[k].headWidth)
            /\ call.arrows[k].ply < 2 => IsZeroRatio(board.arrows[k].width.w)

\* What a call's own arguments give: the highlights of position.moveUci, the
\* outline entries of nextMoveUci, the arrows of the candidate list.
MoveSquares(move) ==
    IF ~Truthy(move) THEN {} ELSE {Slice(move, 0, 2), Slice(move, 2, 4)}

OutlineKeys(b) == {b.outlinedSquares[i].key : i \in 1..Len(b.outlinedSquares)}

MoveOutlineKeys(move) == {<<"str", sq>> : sq \in MoveSquares(move)}

ArrowsBuiltFrom(b, c) ==
    /\ Len(b.arrows) <= Len(c.arrows)
    /\ \A k \in 1..Len(b.arrows) :
        /\ b.arrows[k].move = ArrowMove(c.update, c.arrows[k])
        /\ b.arrows[k].classes[3] = c.arrows[k].variationIdx
        /\ b.arrows[k].classes[5] = Min2(c.arrows[k].ply)

\* C4 as stated: after every changePosition and every updateEvaluation call
\* the main board's highlights, outlines and arrows hold only entries derived
\* from that call's arguments.
C4_OnlyThisCall ==
    /\ call.op = "changePosition" =>
        /\ board.highlightedSquares \subseteq MoveSquares(call.position.moveUci)
        /\ OutlineKeys(board) \subseteq MoveOutlineKeys(call.nextMoveUci)
        /\ board.arrows = <<>>
    /\ call.op = "updateEvaluation" =>
        /\ board.highlightedSquares = {}
        /\ OutlineKeys(board) \subseteq MoveOutlineKeys(call.nextMoveUci)
        /\ ArrowsBuiltFrom(board, call)

\* C4 amended: a changePosition call with isChanged replaces highlights,
\* outlines and arrows by those of its arguments (no arrows) and one without
\* isChanged leaves all three as they were; an updateEvaluation call replaces
\* the arrows by arrows of its candidate list, replaces the outlines by those
\* of nextMoveUci when it is given and leaves them otherwise, and leaves the
\* highlights as they were.
C4_ReplacedPerKind ==
    [][
        /\ (call'.op = "changePosition" /\ call'.isChanged) =>
            /\ board'.highlightedSquares = MoveSquares(call'.position.moveUci)
            /\ OutlineKeys(board') = MoveOutlineKeys(call'.nextMoveUci)
            /\ board'.arrows = <<>>
        /\ (call'.op = "changePosition" /\ ~call'.isChanged) =>
            /\ board'.highlightedSquares = board.highlightedSquares
            /\ board'.outlinedSquares = board.outlinedSquares
            /\ board'.arrows = board.arrows
        /\ call'.op = "updateEvaluation" =>
            /\ ArrowsBuiltFrom(board', call')
            /\ board'.highlightedSquares = board.highlightedSquares
            /\ OutlineKeys(board') =
                  (IF ~Truthy(call'.nextMoveUci) THEN OutlineKeys(board)
                   ELSE MoveOutlineKeys(call'.nextMoveUci))
    ]_vars

\* After an updateEvaluation call without nextMoveUci the board holds that
\* call's arrows beside highlights and outlines of earlier calls.
C4_Witness ==
    /\ call.op = "updateEvaluation"
    /\ ~Truthy(call.nextMoveUci)
    /\ board.arrows # <<>>
    /\ board.highlightedSquares # {}
    /\ board.outlinedSquares # <<>>

\* C5 as stated: a changePosition call (isChanged) with a malformed
\* placement either leaves the main board as it was or surfaces an error,
\* and stores no piece of the malformed placement.
C5_MalformedRejected ==
    [][
        (/\ call'.op = "changePosition"
         /\ call'.isChanged
         /\ ~WellFormed(call'.position.fen))
        => /\ board' = board \/ outcome' # "ok"
           /\ board'.pieces = board.pieces
    ]_vars

\* C10: setPvVisualization and resetPvVisualization leave the main board
\* (pieces, side to move, highlights, outlines, arrows) unchanged, and
\* changePosition and updateEvaluation leave the pv board unchanged.
C10_BoardsIndependent ==
    [][
        /\ call'.op \in {"setPvVisualization", "resetPvVisualization"} =>
              board' = board
        /\ call'.op \in {"changePosition", "updateEvaluation"} =>
              pvBoard' = pvBoard
    ]_vars

\* With a preview set, an evaluation update put arrows on the main board
\* while the pv board holds its own arrows and another position.
C10_Witness ==
    /\ call.op = "updateEvaluation"
    /\ pvVisualization # Undefined
    /\ board.arrows # <<>>
    /\ pvBoard.arrows # <<>>
    /\ pvBoard.pieces # board.pieces

-----------------------------------------------------------------------------
(* C11: the drawing in the shared element.                                 *)

\* The board the area displays: the pv board while a pv visualization is set
DisplayedBoard == IF pvVisualization # Undefined THEN pvBoard ELSE board

\* The element holds the drawing render() makes of the displayed board now:
\* its class names that board and its children are drawn from that board's
\* current pieces, highlights, outlines and arrows.
DrawingCurrent ==
    /\ element = render(DisplayedBoard).element
    /\ element # <<>> =>
           element[1].class = (IF pvVisualization # Undefined THEN "pv-board"
                               ELSE "main-board")

\* C11: after any sequence of completed BoardArea operations the element
\* holds the drawing of the pv board if and only if a pv visualization is
\* set, otherwise of the main board, and that drawing is what render() makes
\* of that board's current state.  It holds after the constructor, and every
\* operation that starts with a current drawing and completes (returns
\* without throwing) leaves a current drawing.
C11_DrawingNeverStale ==
    /\ DrawingCurrent
    /\ [][(DrawingCurrent /\ outcome' = "ok") => DrawingCurrent']_vars

\* An evaluation update completed while a pv visualization is set: the main
\* board took new arrows, the element still shows the pv board, and the two
\* boards draw differently.
C11_Witness ==
    /\ call.op = "updateEvaluation"
    /\ outcome = "ok"
    /\ pvVisualization # Undefined
    /\ Len(board.arrows) > 0
    /\ element # <<>>
    /\ DrawingCurrent
    /\ element # render(board).element

====
